---- MODULE Spec2Model ----
(***************************************************************************)
(* A model of the discrete-event scheduling engine DagSchedEnv             *)
(* (gym_dagsched/envs/dagsched_env.py) together with the Job entity        *)
(* (gym_dagsched/entities/job.py).                                         *)
(*                                                                         *)
(* The entity classes Operation, Task, Worker and the event timeline are   *)
(* not part of the sources at hand; they are modelled from the data model  *)
(* of the specification (sections 3 and 4.1) and from the way the engine   *)
(* uses them.                                                              *)
(*                                                                         *)
(* Times are integers (milliseconds).  A reward is kept as the integer     *)
(* numerator of a fraction whose denominator is RewardScaleDen, because    *)
(* REWARD_SCALE = 1e-5 = 1 / 100000.                                       *)
(***************************************************************************)
EXTENDS Integers, Sequences, FiniteSets, TLC

\* ------------------------------------------------------------------ bounds
NumWorkers == 2
MaxTasks == 2
ArrivalGap == 7000
\* The maximum simulated wall time of a run that is configured with one
MaxWallTime == 5000
\* The number of durations in the lists of a file of task durations
MaxEntries == 4

\* ------------------------------------------------- constants of the program
MOVING_COST == 2000
RewardScaleDen == 100000
\* np.inf, the completion time of a job that has not completed
Inf == 1000000000
\* None, as a worker's job id, a task's worker id and a task's times
None == -1

\* --------------------------------------------------- the workload (inputs)
WorkerIds == 0 .. (NumWorkers - 1)

\* The shapes of DAG a job may have, as sets of edges <<a, b>>: a before b.
ChainDag == {<<0, 1>>, <<1, 2>>}
ForkDag == {<<0, 1>>, <<0, 2>>}
JoinDag == {<<0, 2>>, <<1, 2>>}

\* The job sequences an episode may be run on.  ops[j] are the operation ids
\* of job j (indexes into job.ops) and dag[j] its DAG; job j arrives at
\* j * ArrivalGap.  Either one job of three operations, or a job of two
\* operations followed by a job of one.
TwoJobs == [ops |-> (0 :> {0, 1} @@ 1 :> {0}), dag |-> (0 :> {<<0, 1>>} @@ 1 :> {})]

Workloads ==
    {[ops |-> (0 :> {0, 1, 2}), dag |-> (0 :> d)] : d \in {ChainDag, ForkDag, JoinDag}}
    \cup {TwoJobs}

\* The job sets SysState is run on: the same, and a job of two source
\* operations that precede a third together with a job of one operation
JoinAndJob ==
    [ops |-> (0 :> {0, 1, 2} @@ 1 :> {0}), dag |-> (0 :> JoinDag @@ 1 :> {})]

SysWorkloads == Workloads \cup {JoinAndJob}

OpsOf(w) == {op \in (DOMAIN w.ops) \X {0, 1, 2} : op[2] \in w.ops[op[1]]}

\* op.num_tasks
NumTasks(op) == IF (op[1] + op[2]) % 2 = 0 THEN MaxTasks ELSE 1

TaskIds(op) == 0 .. (NumTasks(op) - 1)

TasksOf(w) == {<<op[1], op[2], k>> : op \in OpsOf(w), k \in 0 .. (MaxTasks - 1)}

\* worker.type_: a single worker type
WorkerType(w) == 0

\* op.task_duration[worker_type]
TaskDurations == <<2000, 1000, 3000>>

TaskDuration(op, type) == TaskDurations[op[2] + 1]

\* job.t_arrival
TArrival(j) == j * ArrivalGap

\* None, as the task of a worker
NoTask == <<>>

\* ---------------------------------------------------------------- helpers
Min(a, b) == IF a <= b THEN a ELSE b

Max(a, b) == IF a >= b THEN a ELSE b

\* All orders in which a set can be iterated
Perms(S) ==
    {f \in [1 .. Cardinality(S) -> S] : \A i, k \in 1 .. Cardinality(S) : f[i] = f[k] => i = k}

MinOf(S) == CHOOSE x \in S : \A y \in S : x <= y

SeqRange(q) == {q[i] : i \in 1 .. Len(q)}

\* list.remove(x): removes the first occurrence
ListRemove(q, x) ==
    LET i == MinOf({k \in 1 .. Len(q) : q[k] = x})
    IN  SubSeq(q, 1, i - 1) \o SubSeq(q, i + 1, Len(q))

\* ------------------------------------------------------------------ state
VARIABLES
    job_ops,            \* job.ops of every job of the episode: its operation ids
    dag,                \* job.dag of every job of the episode
    wall_time,
    timeline,           \* pending events, earliest first
    jobs,               \* keys of self.jobs
    active_job_ids,
    completed_job_ids,
    frontier_ops,
    saturated_ops,
    avail_worker_ids,
    worker_task,        \* worker.task
    worker_job_id,      \* worker.job_id
    worker_is_moving,   \* worker.is_moving
    local_workers,      \* job.local_workers
    active_ops,         \* job.active_ops
    job_frontier_ops,   \* job.frontier_ops
    t_completed,        \* job.t_completed
    saturated_op_count, \* job.saturated_op_count
    remaining_tasks,    \* per operation
    processing_tasks,
    completed_tasks,
    task_worker_id,     \* task.worker_id
    task_t_accepted,    \* task.t_accepted
    task_t_completed,   \* task.t_completed
    pc,                 \* "reset", "returned", "raised": between step calls;
                        \* "draining": in step's loop
    prev_time,          \* step's local prev_time
    needs_agent,        \* step's local needs_agent
    reward,             \* numerator of the reward the last step returned
    done,               \* the done flag the last step returned
    cum_reward,         \* sum of the rewards returned so far (numerator)
    frontier_entries,   \* history: how often each operation was added to
                        \* frontier_ops while it was not in it
    failed,             \* an assertion of Job or a removal from a set or a
                        \* list that lacks the element has raised
    done_returned,      \* history: a step of the episode has returned done
    task_duration,      \* the task duration data of an operation the job
                        \* generator loaded: first_wave and fresh_durations,
                        \* lists of durations by executor key
    first_wave_loaded,  \* history: task_duration['first_wave'] as loaded
    tpch_pc             \* "loaded" or "processed" (or "idle": no generator)

env_vars == <<job_ops, dag, wall_time, timeline, jobs, active_job_ids, completed_job_ids,
          frontier_ops, saturated_ops, avail_worker_ids, worker_task,
          worker_job_id, worker_is_moving, local_workers, active_ops,
          job_frontier_ops, t_completed, saturated_op_count, remaining_tasks, processing_tasks,
          completed_tasks, task_worker_id, task_t_accepted, task_t_completed,
          pc, prev_time, needs_agent, reward, done, cum_reward, frontier_entries,
          failed, done_returned>>

\* The data of TPCHJobSequenceGen
tpch_vars == <<task_duration, first_wave_loaded, tpch_pc>>

vars == <<env_vars, tpch_vars>>

\* The engine's and the entities' state as one record, the argument and the
\* result of the operators that model the engine's methods.
Env ==
    [job_ops |-> job_ops, dag |-> dag, wall_time |-> wall_time, timeline |-> timeline, jobs |-> jobs,
     active_job_ids |-> active_job_ids, completed_job_ids |-> completed_job_ids,
     frontier_ops |-> frontier_ops, saturated_ops |-> saturated_ops,
     avail_worker_ids |-> avail_worker_ids, worker_task |-> worker_task,
     worker_job_id |-> worker_job_id, worker_is_moving |-> worker_is_moving,
     local_workers |-> local_workers, active_ops |-> active_ops,
     job_frontier_ops |-> job_frontier_ops,
     t_completed |-> t_completed, saturated_op_count |-> saturated_op_count,
     remaining_tasks |-> remaining_tasks, processing_tasks |-> processing_tasks,
     completed_tasks |-> completed_tasks, task_worker_id |-> task_worker_id,
     task_t_accepted |-> task_t_accepted, task_t_completed |-> task_t_completed,
     frontier_entries |-> frontier_entries, failed |-> failed,
     done_returned |-> done_returned]

Install(s) ==
    /\ job_ops' = s.job_ops
    /\ dag' = s.dag
    /\ wall_time' = s.wall_time
    /\ timeline' = s.timeline
    /\ jobs' = s.jobs
    /\ active_job_ids' = s.active_job_ids
    /\ completed_job_ids' = s.completed_job_ids
    /\ frontier_ops' = s.frontier_ops
    /\ saturated_ops' = s.saturated_ops
    /\ avail_worker_ids' = s.avail_worker_ids
    /\ worker_task' = s.worker_task
    /\ worker_job_id' = s.worker_job_id
    /\ worker_is_moving' = s.worker_is_moving
    /\ local_workers' = s.local_workers
    /\ active_ops' = s.active_ops
    /\ job_frontier_ops' = s.job_frontier_ops
    /\ t_completed' = s.t_completed
    /\ saturated_op_count' = s.saturated_op_count
    /\ remaining_tasks' = s.remaining_tasks
    /\ processing_tasks' = s.processing_tasks
    /\ completed_tasks' = s.completed_tasks
    /\ task_worker_id' = s.task_worker_id
    /\ task_t_accepted' = s.task_t_accepted
    /\ task_t_completed' = s.task_t_completed
    /\ frontier_entries' = s.frontier_entries
    /\ failed' = s.failed
    /\ done_returned' = s.done_returned
    /\ UNCHANGED tpch_vars

\* --------------------------------------------------------------- timeline
JobArrival(t, j) ==
    [time |-> t, kind |-> "JobArrival", job |-> j, worker |-> 0, op |-> <<j, 0>>, task |-> NoTask]

WorkerArrival(t, w, op) ==
    [time |-> t, kind |-> "WorkerArrival", job |-> op[1], worker |-> w, op |-> op, task |-> NoTask]

TaskCompletion(t, op, task) ==
    [time |-> t, kind |-> "TaskCompletion", job |-> op[1], worker |-> 0, op |-> op, task |-> task]

\* timeline.push(t, event): a priority queue on (time, insertion count)
TimelinePush(tl, ev) ==
    LET k == Cardinality({i \in 1 .. Len(tl) : tl[i].time <= ev.time})
    IN  SubSeq(tl, 1, k) \o <<ev>> \o SubSeq(tl, k + 1, Len(tl))

RECURSIVE InitialTimeline(_)
InitialTimeline(js) ==
    IF js = {} THEN <<>>
    ELSE LET j == MinOf(js)
         IN  <<JobArrival(TArrival(j), j)>> \o InitialTimeline(js \ {j})

\* -------------------------------------------------------------- Operation
OpSaturated(s, op) == s.remaining_tasks[op] = {}

\* Job.saturated
saturated(s, j) == s.saturated_op_count[j] = Cardinality(s.job_ops[j])

OpIsComplete(s, op) == Cardinality(s.completed_tasks[op]) = NumTasks(op)

\* ----------------------------------------------------------------- Worker
WorkerAvailable(s, w) == s.worker_task[w] = NoTask /\ ~s.worker_is_moving[w]

WorkerCompatibleWith(w, op) == TaskDuration(op, WorkerType(w)) < Inf

WorkerCanAssign(s, w, op) == WorkerAvailable(s, w) /\ WorkerCompatibleWith(w, op)

\* -------------------------------------------------------------------- Job
\* Job.source_ops (the engine calls it find_src_ops)
source_ops(s, j) ==
    {<<j, o>> : o \in {n \in s.job_ops[j] : ~(\E e \in s.dag[j] : e[2] = n)}}

\* check_dependencies that is satisfied by one completed predecessor
check_dependencies_some(s, op) ==
    \/ ~(\E e \in s.dag[op[1]] : e[2] = op[2])
    \/ \E e \in s.dag[op[1]] : e[2] = op[2] /\ OpIsComplete(s, <<op[1], e[1]>>)

\* Job.check_dependencies(op_id, 'completed')
check_dependencies(s, op) ==
    \A e \in s.dag[op[1]] : e[2] = op[2] => OpIsComplete(s, <<op[1], e[1]>>)

\* find_new_frontier_ops without the call of check_dependencies: every
\* successor that is not completed is returned
find_new_frontier_ops_unchecked(s, op) ==
    IF ~OpIsComplete(s, op) THEN {}
    ELSE {new_op \in {<<op[1], e[2]>> : e \in {d \in s.dag[op[1]] : d[1] = op[2]}} :
            ~OpIsComplete(s, new_op)}

\* Job.find_new_frontier_ops(op, 'completed') (the engine calls it
\* find_new_frontiers)
find_new_frontier_ops(s, op) ==
    IF ~OpIsComplete(s, op) THEN {}
    ELSE {new_op \in {<<op[1], e[2]>> : e \in {d \in s.dag[op[1]] : d[1] = op[2]}} :
            ~OpIsComplete(s, new_op) /\ check_dependencies(s, new_op)}

\* Job.add_local_worker
add_local_worker(s, j, w) ==
    [s EXCEPT !.local_workers[j] = @ \cup {w}, !.worker_job_id[w] = j]

\* Job.remove_local_worker
remove_local_worker(s, j, w) ==
    [s EXCEPT !.local_workers[j] = @ \ {w}, !.worker_job_id[w] = None]

\* An assertion fails or a removal finds no element: the exception leaves
\* the state as it is at that point
Raise(s) == [s EXCEPT !.failed = TRUE]

\* Operation.start_on_next_task: the task that is started next
NextTask(s, op) == <<op[1], op[2], MinOf({task[3] : task \in s.remaining_tasks[op]})>>

\* assign_worker that binds the next task without starting it on the
\* operation: the task stays among the remaining tasks
assign_worker_not_started(s, w, op) ==
    LET task == NextTask(s, op)
        s1 == [s EXCEPT !.processing_tasks[op] = @ \cup {task}]
    IN  [s1 EXCEPT !.worker_task[w] = task,
                   !.task_worker_id[task] = w,
                   !.task_t_accepted[task] = s.wall_time]

\* assign_worker that counts the operation at each of its tasks
assign_worker_counts_every_task(s, w, op) ==
    LET task == NextTask(s, op)
        s1 == [s EXCEPT !.remaining_tasks[op] = @ \ {task},
                        !.processing_tasks[op] = @ \cup {task},
                        !.saturated_op_count[op[1]] = @ + 1]
    IN  IF s.remaining_tasks[op] = {} THEN Raise(s)
        ELSE [s1 EXCEPT !.worker_task[w] = task,
                        !.task_worker_id[task] = w,
                        !.task_t_accepted[task] = s.wall_time]

\* Job.assign_worker(worker, op, wall_time); the task bound is NextTask(s, op)
\* assert op.num_saturated_tasks < op.num_tasks
assign_worker(s, w, op) ==
    LET task == NextTask(s, op)
        s1 == [s EXCEPT !.remaining_tasks[op] = @ \ {task},
                        !.processing_tasks[op] = @ \cup {task}]
        s2 == IF s1.remaining_tasks[op] = {}
              THEN [s1 EXCEPT !.saturated_op_count[op[1]] = @ + 1]
              ELSE s1
    IN  IF s.remaining_tasks[op] = {} THEN Raise(s)
        ELSE [s2 EXCEPT !.worker_task[w] = task,
                        !.task_worker_id[task] = w,
                        !.task_t_accepted[task] = s.wall_time]

\* Job.add_task_completion(op, task, wall_time); assert not op.completed
add_task_completion(s, op, task) ==
    IF OpIsComplete(s, op) THEN Raise(s)
    ELSE [s EXCEPT !.processing_tasks[op] = @ \ {task},
                   !.completed_tasks[op] = @ \cup {task},
                   !.worker_task[s.task_worker_id[task]] = NoTask,
                   !.task_t_completed[task] = s.wall_time]

\* Job.initialize_frontier (the engine calls it find_src_ops): the source
\* operations, which the call returns, join the job's frontier
\* assert len(self.frontier_ops) == 0
initialize_frontier(s, j) ==
    IF s.job_frontier_ops[j] # {} THEN Raise(s)
    ELSE [s EXCEPT !.job_frontier_ops[j] = @ \cup source_ops(s, j)]

\* The value Job.add_op_completion returns: len(new_ops) > 0
add_op_completion_returns(s, op) ==
    LET s1 == [s EXCEPT !.active_ops[op[1]] = @ \ {op},
                        !.job_frontier_ops[op[1]] = @ \ {op}]
    IN  Cardinality(find_new_frontier_ops(s1, op)) > 0

\* add_op_completion without self.active_ops.remove(op)
add_op_completion_keeps_active(s, op) ==
    LET s1 == [s EXCEPT !.job_frontier_ops[op[1]] = @ \ {op}]
    IN  IF op \notin s.job_frontier_ops[op[1]] THEN Raise(s)
        ELSE [s1 EXCEPT !.job_frontier_ops[op[1]] =
                            @ \cup find_new_frontier_ops(s1, op)]

\* add_op_completion without self.frontier_ops.remove(op)
add_op_completion_keeps_frontier(s, op) ==
    LET s1 == [s EXCEPT !.active_ops[op[1]] = @ \ {op}]
    IN  [s1 EXCEPT !.job_frontier_ops[op[1]] = @ \cup find_new_frontier_ops(s1, op)]

\* Job.add_op_completion; set.remove raises when the operation is missing
add_op_completion(s, op) ==
    LET s1 == [s EXCEPT !.active_ops[op[1]] = @ \ {op},
                        !.job_frontier_ops[op[1]] = @ \ {op}]
    IN  IF op \notin s.active_ops[op[1]] THEN Raise(s)
        ELSE IF op \notin s.job_frontier_ops[op[1]]
             THEN Raise([s EXCEPT !.active_ops[op[1]] = @ \ {op}])
             ELSE [s1 EXCEPT !.job_frontier_ops[op[1]] =
                                 @ \cup find_new_frontier_ops(s1, op)]

\* Job.completed (the engine calls it is_complete)
JobCompleted(s, j) == s.active_ops[j] = {}

\* ------------------------------------------------------------ DagSchedEnv
push_task_completion_event(s, op, task) ==
    LET worker_type == WorkerType(s.task_worker_id[task])
        t_completion == s.task_t_accepted[task] + TaskDuration(op, worker_type)
    IN  [s EXCEPT !.timeline = TimelinePush(@, TaskCompletion(t_completion, op, task))]

\* _push_task_completion_events that pushes the event of the first task only
push_task_completion_events_first_only(s, op, tasks) ==
    IF tasks = <<>> THEN s
    ELSE push_task_completion_event(s, op, Head(tasks))

\* tasks is the order in which tasks.pop() yields the set's members
RECURSIVE push_task_completion_events(_, _, _)
push_task_completion_events(s, op, tasks) ==
    IF tasks = <<>> THEN s
    ELSE push_task_completion_events(
             push_task_completion_event(s, op, Head(tasks)), op, Tail(tasks))

\* _push_worker_arrival_event with the moving cost taken as the time of
\* arrival, not added to the wall time
push_worker_arrival_event_absolute(s, w, op) ==
    [s EXCEPT !.timeline = TimelinePush(@, WorkerArrival(MOVING_COST, w, op))]

push_worker_arrival_event(s, w, op) ==
    [s EXCEPT !.timeline = TimelinePush(@, WorkerArrival(s.wall_time + MOVING_COST, w, op))]

\* _send_worker without worker.is_moving = True
send_worker_not_moving(s, w, op) ==
    LET s1 == IF s.worker_job_id[w] # None
              THEN remove_local_worker(s, s.worker_job_id[w], w)
              ELSE s
        s2 == [s1 EXCEPT !.avail_worker_ids = @ \ {w}]
    IN  push_worker_arrival_event(s2, w, op)

\* _send_worker without old_job.remove_local_worker
send_worker_keeps_local(s, w, op) ==
    LET s2 == [s EXCEPT !.worker_is_moving[w] = TRUE,
                        !.avail_worker_ids = @ \ {w}]
    IN  push_worker_arrival_event(s2, w, op)

send_worker(s, w, op) ==
    LET s1 == IF s.worker_job_id[w] # None
              THEN remove_local_worker(s, s.worker_job_id[w], w)
              ELSE s
        s2 == [s1 EXCEPT !.worker_is_moving[w] = TRUE,
                         !.avail_worker_ids = @ \ {w}]
    IN  push_worker_arrival_event(s2, w, op)

\* _send_worker raises a KeyError: the worker's job_id is not a key of
\* self.jobs, or the worker is not among that job's local workers
send_worker_raises(s, w) ==
    /\ s.worker_job_id[w] # None
    /\ \/ s.worker_job_id[w] \notin s.jobs
       \/ w \notin s.local_workers[s.worker_job_id[w]]

\* order is the order in which list(self.avail_worker_ids) is iterated; the
\* loop ends where _send_worker raises
RECURSIVE send_more_workers(_, _, _, _)
send_more_workers(s, op, n_workers_to_send, order) ==
    IF order = <<>> \/ n_workers_to_send = 0 THEN s
    ELSE IF WorkerCanAssign(s, Head(order), op)
         THEN IF send_worker_raises(s, Head(order)) THEN s
              ELSE send_more_workers(send_worker(s, Head(order), op), op,
                                     n_workers_to_send - 1, Tail(order))
         ELSE send_more_workers(s, op, n_workers_to_send, Tail(order))

\* Whether the loop of _send_more_workers ends by _send_worker raising
RECURSIVE send_more_workers_raises(_, _, _, _)
send_more_workers_raises(s, op, n_workers_to_send, order) ==
    IF order = <<>> \/ n_workers_to_send = 0 THEN FALSE
    ELSE IF WorkerCanAssign(s, Head(order), op)
         THEN IF send_worker_raises(s, Head(order)) THEN TRUE
              ELSE send_more_workers_raises(send_worker(s, Head(order), op), op,
                                            n_workers_to_send - 1, Tail(order))
         ELSE send_more_workers_raises(s, op, n_workers_to_send, Tail(order))

\* move_if_saturated that records the saturation and leaves the operation
\* in the frontier
move_if_saturated_keeps_frontier(s, op) ==
    IF OpSaturated(s, op) /\ op \in s.frontier_ops
    THEN [s EXCEPT !.saturated_ops = @ \cup {op}]
    ELSE s

\* The frontier bookkeeping at the end of _schedule_workers and _schedule_worker
move_if_saturated(s, op) ==
    IF OpSaturated(s, op) /\ op \in s.frontier_ops
    THEN [s EXCEPT !.frontier_ops = @ \ {op}, !.saturated_ops = @ \cup {op}]
    ELSE s

\* The loop of _schedule_workers without the test worker.can_assign(op)
RECURSIVE schedule_workers_loop_any_worker(_, _, _, _)
schedule_workers_loop_any_worker(s, op, order, tasks) ==
    IF order = <<>> \/ OpSaturated(s, op) THEN [s |-> s, tasks |-> tasks]
    ELSE schedule_workers_loop_any_worker(assign_worker(s, Head(order), op), op,
                                          Tail(order), tasks \cup {NextTask(s, op)})

\* The loop of _schedule_workers; order is the order in which
\* job.local_workers is iterated.  The result is the state and the tasks bound.
RECURSIVE schedule_workers_loop(_, _, _, _)
schedule_workers_loop(s, op, order, tasks) ==
    IF order = <<>> \/ OpSaturated(s, op) THEN [s |-> s, tasks |-> tasks]
    ELSE IF WorkerCanAssign(s, Head(order), op)
         THEN schedule_workers_loop(assign_worker(s, Head(order), op), op,
                                    Tail(order), tasks \cup {NextTask(s, op)})
         ELSE schedule_workers_loop(s, op, Tail(order), tasks)

schedule_workers(s, op, order) ==
    LET r == schedule_workers_loop(s, op, order, {})
    IN  [s |-> move_if_saturated(r.s, op), tasks |-> r.tasks]

schedule_worker(s, w, op) ==
    LET task == NextTask(s, op)
        s1 == assign_worker(s, w, op)
        s2 == push_task_completion_event(s1, op, task)
    IN  IF s1.failed THEN s1 ELSE move_if_saturated(s2, op)

\* self.frontier_ops |= new_ops; the operations that were not in the
\* frontier are counted as entering it
add_to_frontier(s, new_ops) ==
    [s EXCEPT !.frontier_ops = @ \cup new_ops,
              !.frontier_entries =
                  [op \in DOMAIN @ |->
                      IF op \in new_ops \ s.frontier_ops THEN @[op] + 1 ELSE @[op]]]

\* _process_job_arrival that returns False: the agent is not consulted
process_job_arrival_silent(s, j) ==
    [s |-> add_to_frontier(initialize_frontier([s EXCEPT !.jobs = @ \cup {j},
                                                         !.active_job_ids = Append(@, j)],
                                               j),
                           source_ops(s, j)),
     needs_agent |-> FALSE]

process_job_arrival(s, j) ==
    LET s1 == initialize_frontier([s EXCEPT !.jobs = @ \cup {j},
                                            !.active_job_ids = Append(@, j)], j)
    IN  IF s1.failed THEN [s |-> s1, needs_agent |-> FALSE]
        ELSE [s |-> add_to_frontier(s1, source_ops(s, j)), needs_agent |-> TRUE]

\* _process_worker_arrival that leaves the arriving worker idle when the
\* operation is complete or saturated, without adding it to the available
\* workers
process_worker_arrival_not_available(s, w, op) ==
    LET s1 == add_local_worker(s, op[1], w)
        s2 == [s1 EXCEPT !.worker_is_moving[w] = FALSE, !.worker_job_id[w] = op[1]]
    IN  IF OpIsComplete(s2, op) \/ OpSaturated(s2, op)
        THEN [s |-> s2, needs_agent |-> TRUE]
        ELSE [s |-> schedule_worker(s2, w, op), needs_agent |-> FALSE]

\* _process_worker_arrival without the test of op.is_complete and
\* op.saturated: the worker is always scheduled on the operation
process_worker_arrival_always_schedules(s, w, op) ==
    LET s1 == add_local_worker(s, op[1], w)
        s2 == [s1 EXCEPT !.worker_is_moving[w] = FALSE, !.worker_job_id[w] = op[1]]
    IN  [s |-> schedule_worker(s2, w, op), needs_agent |-> FALSE]

process_worker_arrival(s, w, op) ==
    LET s1 == add_local_worker(s, op[1], w)
        s2 == [s1 EXCEPT !.worker_is_moving[w] = FALSE, !.worker_job_id[w] = op[1]]
    IN  IF OpIsComplete(s2, op) \/ OpSaturated(s2, op)
        THEN [s |-> [s2 EXCEPT !.avail_worker_ids = @ \cup {w}], needs_agent |-> TRUE]
        ELSE [s |-> schedule_worker(s2, w, op), needs_agent |-> FALSE]

\* _process_op_completion without self.saturated_ops.remove(op)
process_op_completion_keeps_saturated(s, op, w) ==
    LET s1 == [s EXCEPT !.avail_worker_ids = @ \cup {w}]
        s2 == add_op_completion(s1, op)
    IN  add_to_frontier(s2, find_new_frontier_ops(s2, op))

\* self.saturated_ops.remove(op) raises when the operation is missing
process_op_completion(s, op, w) ==
    LET s1 == [s EXCEPT !.avail_worker_ids = @ \cup {w}]
        s2 == add_op_completion(s1, op)
        s3 == [s2 EXCEPT !.saturated_ops = @ \ {op}]
    IN  IF s2.failed THEN s2
        ELSE IF op \notin s2.saturated_ops THEN Raise(s2)
        ELSE add_to_frontier(s3, find_new_frontier_ops(s3, op))

\* _process_job_completion without self.active_job_ids.remove(job.id_)
process_job_completion_keeps_active(s, j) ==
    [s EXCEPT !.completed_job_ids = Append(@, j),
              !.t_completed[j] = s.wall_time]

\* assert job.id_ in self.jobs; list.remove raises when the id is missing
process_job_completion(s, j) ==
    IF j \notin s.jobs \/ j \notin SeqRange(s.active_job_ids) THEN Raise(s)
    ELSE [s EXCEPT !.active_job_ids = ListRemove(@, j),
                   !.completed_job_ids = Append(@, j),
                   !.t_completed[j] = s.wall_time]

\* _process_task_completion without the branch that schedules the worker on
\* the operation again: the worker is left without a task
process_task_completion_no_rebinding(s, op, task) ==
    LET w == s.task_worker_id[task]
        s1 == add_task_completion(s, op, task)
        r == IF OpIsComplete(s1, op)
             THEN [s |-> process_op_completion(s1, op, w), needs_agent |-> TRUE]
             ELSE [s |-> s1, needs_agent |-> FALSE]
    IN  IF s1.failed THEN [s |-> s1, needs_agent |-> FALSE]
        ELSE IF r.s.failed THEN r
        ELSE IF JobCompleted(r.s, op[1])
        THEN [s |-> process_job_completion(r.s, op[1]), needs_agent |-> r.needs_agent]
        ELSE r

process_task_completion(s, op, task) ==
    LET w == s.task_worker_id[task]
        s1 == add_task_completion(s, op, task)
        r == IF OpIsComplete(s1, op)
             THEN [s |-> process_op_completion(s1, op, w), needs_agent |-> TRUE]
             ELSE IF ~OpSaturated(s1, op)
                  THEN [s |-> schedule_worker(s1, w, op), needs_agent |-> FALSE]
                  ELSE [s |-> s1, needs_agent |-> FALSE]
    IN  IF s1.failed THEN [s |-> s1, needs_agent |-> FALSE]
        ELSE IF r.s.failed THEN r
        ELSE IF JobCompleted(r.s, op[1])
        THEN [s |-> process_job_completion(r.s, op[1]), needs_agent |-> r.needs_agent]
        ELSE r

\* The numerator of the reward: the sum is multiplied by REWARD_SCALE
RECURSIVE reward_sum(_, _, _)
reward_sum(s, ids, prev) ==
    IF ids = <<>> THEN 0
    ELSE LET j == Head(ids)
             start == Max(TArrival(j), prev)
             end == Min(s.t_completed[j], s.wall_time)
         IN  reward_sum(s, Tail(ids), prev) - (end - start)

\* Variant: every active job is charged from its arrival
calculate_reward_since_arrival(s, prev) == reward_sum(s, s.active_job_ids, 0)

calculate_reward(s, prev) == reward_sum(s, s.active_job_ids, prev)

are_actions_available(s) ==
    Cardinality(s.avail_worker_ids) > 0 /\ Cardinality(s.frontier_ops) > 0

\* job.n_avail_local: the number of the job's local workers that are
\* available
n_avail_local(s, j) == Cardinality({w \in s.local_workers[j] : WorkerAvailable(s, w)})

\* construct_op_msk without the test of the workers: the mask of an active
\* job is its operations' membership of the frontier
construct_op_msk_any_workers(s) ==
    [op \in DOMAIN s.remaining_tasks |->
        op[1] \in SeqRange(s.active_job_ids) /\ op \in s.frontier_ops]

\* construct_op_msk: op_msk[j, i] for every operation <<j, i>>
construct_op_msk(s) ==
    [op \in DOMAIN s.remaining_tasks |->
        /\ op[1] \in SeqRange(s.active_job_ids)
        /\ n_avail_local(s, op[1]) > 0 \/ Cardinality(s.avail_worker_ids) > 0
        /\ op \in s.frontier_ops]

\* The admission of an action that leaves out the assertion: any operation of
\* a job that has arrived is accepted
ValidAction_any_op(s, j, o) == j \in s.jobs /\ o \in s.job_ops[j]

\* The admission of step's action: self.jobs[job_id] exists, it has an
\* operation op_id, and the operation is in the frontier
ValidAction(s, j, o) ==
    j \in s.jobs /\ o \in s.job_ops[j] /\ <<j, o>> \in s.frontier_ops

\* ----------------------------------------------------------------- Init
\* The state after reset(initial_timeline, workers) with fresh workers and jobs
InitWith(load) ==
    /\ job_ops = load.ops
    /\ dag = load.dag
    /\ wall_time = 0
    /\ timeline = InitialTimeline(DOMAIN load.ops)
    /\ jobs = {}
    /\ active_job_ids = <<>>
    /\ completed_job_ids = <<>>
    /\ frontier_ops = {}
    /\ saturated_ops = {}
    /\ avail_worker_ids = WorkerIds
    /\ worker_task = [w \in WorkerIds |-> NoTask]
    /\ worker_job_id = [w \in WorkerIds |-> None]
    /\ worker_is_moving = [w \in WorkerIds |-> FALSE]
    /\ local_workers = [j \in DOMAIN load.ops |-> {}]
    /\ active_ops = [j \in DOMAIN load.ops |-> {<<j, o>> : o \in load.ops[j]}]
    /\ job_frontier_ops = [j \in DOMAIN load.ops |-> {}]
    /\ t_completed = [j \in DOMAIN load.ops |-> Inf]
    /\ saturated_op_count = [j \in DOMAIN load.ops |-> 0]
    /\ remaining_tasks = [op \in OpsOf(load) |-> {<<op[1], op[2], k>> : k \in TaskIds(op)}]
    /\ processing_tasks = [op \in OpsOf(load) |-> {}]
    /\ completed_tasks = [op \in OpsOf(load) |-> {}]
    /\ task_worker_id = [task \in TasksOf(load) |-> None]
    /\ task_t_accepted = [task \in TasksOf(load) |-> None]
    /\ task_t_completed = [task \in TasksOf(load) |-> None]
    /\ pc = "reset"
    /\ prev_time = 0
    /\ needs_agent = FALSE
    /\ reward = 0
    /\ done = FALSE
    /\ cum_reward = 0
    /\ frontier_entries = [op \in OpsOf(load) |-> 0]
    /\ failed = FALSE
    /\ done_returned = FALSE

\* No job generator: the engine is run on a given job sequence
NoGenerator ==
    /\ task_duration = [first_wave |-> <<>>, fresh_durations |-> <<>>]
    /\ first_wave_loaded = <<>>
    /\ tpch_pc = "idle"

Init == \E load \in Workloads : InitWith(load) /\ NoGenerator

\* The state after reset on the two jobs
InitTwoJobs == InitWith(TwoJobs) /\ NoGenerator

\* The jobs and the operations of the episode
OpIds == {0, 1, 2}

JobIds == DOMAIN job_ops

Ops == {op \in JobIds \X OpIds : op[2] \in job_ops[op[1]]}

\* The caller is between two calls of step: after reset, after a step that
\* returned, or after a step that raised an error
BetweenSteps == pc \in {"reset", "returned", "raised"}

\* ---------------------------------------------------------------- actions
\* step(job_id, op_id, n_workers) up to the loop: the action is applied
StepAction(j, o, n) ==
    /\ BetweenSteps
    /\ ValidAction(Env, j, o)
    /\ \E sendOrder \in Perms(avail_worker_ids) :
         LET s1 == send_more_workers(Env, <<j, o>>, n, sendOrder)
         IN  /\ ~send_more_workers_raises(Env, <<j, o>>, n, sendOrder)
             /\ \E localOrder \in Perms(s1.local_workers[j]) :
                  LET r == schedule_workers(s1, <<j, o>>, localOrder)
                  IN  \E pushOrder \in Perms(r.tasks) :
                        Install(push_task_completion_events(r.s, <<j, o>>, pushOrder))
    /\ prev_time' = wall_time
    /\ needs_agent' = FALSE
    /\ pc' = "draining"
    /\ UNCHANGED <<reward, done, cum_reward>>

\* step(job_id, op_id, n_workers) with an action that is not admitted: the
\* lookup of the operation or the assertion raises, and step is left
StepInvalid(j, o) ==
    /\ BetweenSteps
    /\ ~ValidAction(Env, j, o)
    /\ Install(Env)
    /\ pc' = "raised"
    /\ UNCHANGED <<prev_time, needs_agent, reward, done, cum_reward>>

\* step(job_id, op_id, n_workers) in which _send_worker raises: step is left
\* with the workers sent so far
StepSendRaises(j, o, n) ==
    /\ BetweenSteps
    /\ ValidAction(Env, j, o)
    /\ \E sendOrder \in Perms(avail_worker_ids) :
         /\ send_more_workers_raises(Env, <<j, o>>, n, sendOrder)
         /\ Install(send_more_workers(Env, <<j, o>>, n, sendOrder))
    /\ pc' = "raised"
    /\ UNCHANGED <<prev_time, needs_agent, reward, done, cum_reward>>

\* reset(initial_timeline, workers), called between two steps with a new
\* timeline of the same jobs, not yet started, and with the worker objects
\* of the episode before, as they are
Reset ==
    /\ BetweenSteps
    /\ wall_time' = 0
    /\ timeline' = InitialTimeline(JobIds)
    /\ jobs' = {}
    /\ active_job_ids' = <<>>
    /\ completed_job_ids' = <<>>
    /\ frontier_ops' = {}
    /\ saturated_ops' = {}
    /\ avail_worker_ids' = WorkerIds
    /\ local_workers' = [j \in JobIds |-> {}]
    /\ active_ops' = [j \in JobIds |-> {<<j, o>> : o \in job_ops[j]}]
    /\ job_frontier_ops' = [j \in JobIds |-> {}]
    /\ t_completed' = [j \in JobIds |-> Inf]
    /\ saturated_op_count' = [j \in JobIds |-> 0]
    /\ remaining_tasks' = [op \in Ops |-> {<<op[1], op[2], k>> : k \in TaskIds(op)}]
    /\ processing_tasks' = [op \in Ops |-> {}]
    /\ completed_tasks' = [op \in Ops |-> {}]
    /\ task_worker_id' = [task \in DOMAIN task_worker_id |-> None]
    /\ task_t_accepted' = [task \in DOMAIN task_t_accepted |-> None]
    /\ task_t_completed' = [task \in DOMAIN task_t_completed |-> None]
    /\ pc' = "reset"
    /\ prev_time' = 0
    /\ needs_agent' = FALSE
    /\ reward' = 0
    /\ done' = FALSE
    /\ cum_reward' = 0
    /\ frontier_entries' = [op \in Ops |-> 0]
    /\ failed' = FALSE
    /\ done_returned' = FALSE
    /\ UNCHANGED <<job_ops, dag, worker_task, worker_job_id, worker_is_moving>>
    /\ UNCHANGED tpch_vars

\* step(None, None, None) up to the loop
StepNone ==
    /\ BetweenSteps
    /\ Install(Env)
    /\ prev_time' = wall_time
    /\ needs_agent' = FALSE
    /\ pc' = "draining"
    /\ UNCHANGED <<reward, done, cum_reward>>

\* The test of step's loop without "not self.timeline.empty"
loop_continues_unguarded(s, agent_needed) == ~agent_needed

\* The test of step's loop: while not needs_agent and not self.timeline.empty
loop_continues(s, agent_needed) == ~agent_needed /\ s.timeline # <<>>

\* One iteration of step's loop: pop the earliest event and process it
PopEvent(kind) ==
    /\ pc = "draining"
    /\ loop_continues(Env, needs_agent)
    /\ Head(timeline).kind = kind

Popped == [Env EXCEPT !.timeline = Tail(@), !.wall_time = Head(timeline).time]

ProcessJobArrival ==
    /\ PopEvent("JobArrival")
    /\ LET r == process_job_arrival(Popped, Head(timeline).job)
       IN  /\ Install(r.s)
           /\ needs_agent' = r.needs_agent
           /\ pc' = IF r.s.failed THEN "raised" ELSE pc
    /\ UNCHANGED <<prev_time, reward, done, cum_reward>>

ProcessWorkerArrival ==
    /\ PopEvent("WorkerArrival")
    /\ LET r == process_worker_arrival(Popped, Head(timeline).worker, Head(timeline).op)
       IN  /\ Install(r.s)
           /\ needs_agent' = r.needs_agent
           /\ pc' = IF r.s.failed THEN "raised" ELSE pc
    /\ UNCHANGED <<prev_time, reward, done, cum_reward>>

ProcessTaskCompletion ==
    /\ PopEvent("TaskCompletion")
    /\ LET r == process_task_completion(Popped, Head(timeline).op, Head(timeline).task)
       IN  /\ Install(r.s)
           /\ needs_agent' = r.needs_agent
           /\ pc' = IF r.s.failed THEN "raised" ELSE pc
    /\ UNCHANGED <<prev_time, reward, done, cum_reward>>

\* step's done: the timeline is empty and every worker is available
step_done(s) == s.timeline = <<>> /\ Cardinality(s.avail_worker_ids) = NumWorkers

\* The end of step: done and the reward are computed and returned
StepReturn ==
    /\ pc = "draining"
    /\ ~loop_continues(Env, needs_agent)
    /\ done' = step_done(Env)
    /\ reward' = calculate_reward(Env, prev_time)
    /\ cum_reward' = cum_reward + reward'
    /\ pc' = "returned"
    /\ Install([Env EXCEPT !.done_returned = @ \/ step_done(Env)])
    /\ UNCHANGED <<prev_time, needs_agent>>

Next ==
    \/ \E op \in Ops, n \in 0 .. (NumWorkers + 1) : StepAction(op[1], op[2], n)
    \/ \E j \in JobIds, o \in OpIds : StepInvalid(j, o)
    \/ StepNone
    \/ ProcessJobArrival
    \/ ProcessWorkerArrival
    \/ ProcessTaskCompletion
    \/ StepReturn

Spec == Init /\ [][Next]_vars


\* Episodes on the two jobs that the caller may end at any time between
\* two steps by calling reset with the same workers
NextWithReset ==
    \/ Next
    \/ Reset
    \/ \E op \in Ops, n \in 1 .. (NumWorkers + 1) : StepSendRaises(op[1], op[2], n)

ResetSpec == InitTwoJobs /\ [][NextWithReset]_vars

\* done of a run with a maximum wall time that ignores the maximum
truncated_done_never(s) == step_done(s)

\* done of a run that is configured with max_wall_time: it is forced true
\* when the step ends with the wall time beyond the maximum
truncated_done(s) == step_done(s) \/ s.wall_time > MaxWallTime

\* The end of step in a run that is configured with max_wall_time
StepReturnTruncated ==
    /\ pc = "draining"
    /\ ~loop_continues(Env, needs_agent)
    /\ done' = truncated_done(Env)
    /\ reward' = calculate_reward(Env, prev_time)
    /\ cum_reward' = cum_reward + reward'
    /\ pc' = "returned"
    /\ Install([Env EXCEPT !.done_returned = @ \/ truncated_done(Env)])
    /\ UNCHANGED <<prev_time, needs_agent>>

\* A run that is configured with max_wall_time
NextTruncated ==
    \/ \E op \in Ops, n \in 0 .. (NumWorkers + 1) : StepAction(op[1], op[2], n)
    \/ \E j \in JobIds, o \in OpIds : StepInvalid(j, o)
    \/ StepNone
    \/ ProcessJobArrival
    \/ ProcessWorkerArrival
    \/ ProcessTaskCompletion
    \/ StepReturnTruncated

TruncSpec == Init /\ [][NextTruncated]_vars

\* ---------------------------------------------------------------- SysState
\* SysState keeps the frontier and the saturated stages as masks, here the
\* sets frontier_ops and saturated_ops of the stages whose bit is 1; the
\* jobs, stages, tasks and workers are the state of the engine's entities.
add_stages_to_frontier(s, stages) == [s EXCEPT !.frontier_ops = @ \cup stages]

\* assert self.is_stage_in_frontier(stage_idx)
remove_stage_from_frontier(s, stage) ==
    IF stage \notin s.frontier_ops THEN Raise(s)
    ELSE [s EXCEPT !.frontier_ops = @ \ {stage}]

saturate_stage(s, stage) == [s EXCEPT !.saturated_ops = @ \cup {stage}]

\* assert self.is_stage_saturated(stage_idx); the bit that is cleared is the
\* one of frontier_stages_mask
remove_stage_from_saturated(s, stage) ==
    IF stage \notin s.saturated_ops THEN Raise(s)
    ELSE [s EXCEPT !.frontier_ops = @ \ {stage}]

\* SysState.add_job with add_src_nodes_to_frontier
add_job(s, j) ==
    add_stages_to_frontier([s EXCEPT !.jobs = @ \cup {j}], source_ops(s, j))

\* SysState.is_action_valid for a job that has been added
is_action_valid(s, j, o) ==
    j \in s.jobs /\ o \in s.job_ops[j] /\ <<j, o>> \in s.frontier_ops

\* The least available worker of the type among ws, in the order of
\* self.workers; None if there is none
FirstAvailable(s, ws, worker_type) ==
    LET found == {w \in ws : WorkerType(w) = worker_type /\ WorkerAvailable(s, w)}
    IN  IF found = {} THEN None ELSE MinOf(found)

\* SysState.find_closest_worker(stage, worker_type)
find_closest_worker(s, stage, worker_type) ==
    LET at_stage == {k \in TaskIds(stage) :
                        LET w == s.task_worker_id[<<stage[1], stage[2], k>>]
                        IN  /\ w # None
                            /\ WorkerType(w) = worker_type
                            /\ WorkerAvailable(s, w)}
        at_job == {w \in WorkerIds : s.worker_job_id[w] = stage[1]}
    IN  IF OpSaturated(s, stage) THEN None
        ELSE IF at_stage # {}
             THEN s.task_worker_id[<<stage[1], stage[2], MinOf(at_stage)>>]
        ELSE IF FirstAvailable(s, at_job, worker_type) # None
             THEN FirstAvailable(s, at_job, worker_type)
        ELSE FirstAvailable(s, WorkerIds, worker_type)

\* SysState.schedule_worker: worker.assign_new_stage(stage) and
\* stage.add_worker(worker, wall_time), which starts the stage's next task
sys_schedule_worker(s, w, stage) ==
    LET task == NextTask(s, stage)
    IN  [s EXCEPT !.worker_job_id[w] = stage[1],
                  !.worker_task[w] = task,
                  !.remaining_tasks[stage] = @ \ {task},
                  !.processing_tasks[stage] = @ \cup {task},
                  !.task_worker_id[task] = w,
                  !.task_t_accepted[task] = s.wall_time]

\* The inner loop of take_action: for _ in range(n_remaining_requests),
\* left when find_closest_worker returns None
RECURSIVE sys_take_action_loop(_, _, _, _)
sys_take_action_loop(s, stage, worker_type, n_remaining_requests) ==
    LET w == find_closest_worker(s, stage, worker_type)
    IN  IF n_remaining_requests <= 0 \/ w = None THEN s
        ELSE sys_take_action_loop(sys_schedule_worker(s, w, stage), stage,
                                  worker_type, n_remaining_requests - 1)

\* take_action that leaves a saturated stage in the frontier mask
sys_take_action_keeps_frontier(s, stage, n_workers) ==
    LET s1 == IF OpSaturated(s, stage) THEN s
              ELSE sys_take_action_loop(s, stage, 0, n_workers)
    IN  IF OpSaturated(s1, stage) THEN saturate_stage(s1, stage) ELSE s1

\* SysState.take_action(action); the workers have one type, so that the
\* loop over stage.compatible_worker_types() has one round
sys_take_action(s, stage, n_workers) ==
    LET s1 == IF OpSaturated(s, stage) THEN s
              ELSE sys_take_action_loop(s, stage, 0, n_workers)
        s2 == remove_stage_from_frontier(s1, stage)
    IN  IF ~OpSaturated(s1, stage) THEN s1
        ELSE IF s2.failed THEN s2
        ELSE saturate_stage(s2, stage)

\* SysState.process_stage_completion
process_stage_completion(s, stage) ==
    LET s1 == [s EXCEPT !.active_ops[stage[1]] = @ \ {stage}]
        s2 == remove_stage_from_saturated(s1, stage)
    IN  IF s2.failed THEN s2
        ELSE add_stages_to_frontier(s2, find_new_frontier_ops(s2, stage))

\* SysState.process_job_completion
sys_process_job_completion(s, j) ==
    [s EXCEPT !.completed_job_ids = Append(@, j), !.t_completed[j] = s.wall_time]

\* SysState.process_task_completion(stage, task_id)
sys_process_task_completion(s, stage, task) ==
    LET w == s.task_worker_id[task]
        s1 == [s EXCEPT !.processing_tasks[stage] = @ \ {task},
                        !.completed_tasks[stage] = @ \cup {task},
                        !.task_t_completed[task] = s.wall_time,
                        !.worker_task[w] = NoTask]
        s2 == IF OpIsComplete(s1, stage) THEN process_stage_completion(s1, stage) ELSE s1
    IN  IF s2.failed THEN s2
        ELSE IF JobCompleted(s2, stage[1]) THEN sys_process_job_completion(s2, stage[1])
        ELSE s2

\* The variables of step, which SysState does not have
step_vars == <<pc, prev_time, needs_agent, reward, done, cum_reward>>

SysAddJob(j) ==
    /\ j \notin jobs
    /\ ~failed
    /\ Install(add_job(Env, j))
    /\ UNCHANGED step_vars

SysTakeAction(j, o, n) ==
    /\ is_action_valid(Env, j, o)
    /\ ~failed
    /\ Install(sys_take_action(Env, <<j, o>>, n))
    /\ UNCHANGED step_vars

SysProcessTaskCompletion(stage, task) ==
    /\ task \in processing_tasks[stage]
    /\ ~failed
    /\ Install(sys_process_task_completion(Env, stage, task))
    /\ UNCHANGED step_vars

\* SysState driven by its caller: jobs are added, valid actions are taken
\* and the tasks in progress complete in any order
SysNext ==
    \/ \E j \in JobIds : SysAddJob(j)
    \/ \E op \in Ops, n \in 0 .. (NumWorkers + 1) : SysTakeAction(op[1], op[2], n)
    \/ \E op \in Ops : \E task \in processing_tasks[op] : SysProcessTaskCompletion(op, task)

SysInit == \E load \in SysWorkloads : InitWith(load) /\ NoGenerator

SysSpec == SysInit /\ [][SysNext]_vars

\* The agent supplies an action with at least one worker while actions are
\* available
AgentActs ==
    /\ are_actions_available(Env)
    /\ \E op \in Ops, n \in 1 .. (NumWorkers + 1) : StepAction(op[1], op[2], n)

\* An episode on the two jobs in which step runs to completion, the agent
\* keeps calling step, and it supplies an action with at least one worker
\* again and again while actions are available
FairSpec ==
    /\ InitTwoJobs
    /\ [][Next]_vars
    /\ WF_vars(ProcessJobArrival \/ ProcessWorkerArrival \/ ProcessTaskCompletion \/ StepReturn)
    /\ WF_vars(StepNone \/ AgentActs)
    /\ SF_vars(AgentActs)

\* ------------------------------------------------------ TPCHJobSequenceGen
\* The executor keys of an operation's task duration data and the durations
\* its lists may hold
ExecutorKeys == {2, 5, 10}
WaveDurations == {10, 20}

\* SetWithCount(): a dict from the items of the set to their counts
SetWithCount == <<>>

\* SetWithCount.__contains__
SetWithCount_contains(set, item) == item \in DOMAIN set

\* SetWithCount.add
SetWithCount_add(set, item) ==
    IF item \in DOMAIN set
    THEN [set EXCEPT ![item] = @ + 1]
    ELSE [x \in DOMAIN set \cup {item} |-> IF x = item THEN 1 ELSE set[x]]

\* Variant: the count of a removed item stays as it is
SetWithCount_remove_keeps(set, item) == set

\* SetWithCount.remove
SetWithCount_remove(set, item) ==
    IF set[item] - 1 = 0
    THEN [x \in DOMAIN set \ {item} |-> set[x]]
    ELSE [set EXCEPT ![item] = @ - 1]

\* for d in task_duration['fresh_durations'][e]: fresh_durations.add(d)
RECURSIVE add_fresh_durations(_, _)
add_fresh_durations(set, ds) ==
    IF ds = <<>> THEN set
    ELSE add_fresh_durations(SetWithCount_add(set, Head(ds)), Tail(ds))

\* for d in task_duration['first_wave'][e]: d is appended to the clean list
\* unless it is in fresh_durations, and then one of its occurrences there
\* is removed
RECURSIVE clean_wave(_, _, _)
clean_wave(ds, fresh_durations, clean) ==
    IF ds = <<>> THEN clean
    ELSE LET d == Head(ds)
         IN  IF ~SetWithCount_contains(fresh_durations, d)
             THEN clean_wave(Tail(ds), fresh_durations, Append(clean, d))
             ELSE clean_wave(Tail(ds), SetWithCount_remove(fresh_durations, d), clean)

\* The first loop of _pre_process_task_duration
clean_first_wave(td) ==
    [e \in DOMAIN td.first_wave |->
        clean_wave(td.first_wave[e],
                   add_fresh_durations(SetWithCount, td.fresh_durations[e]), <<>>)]

\* The second loop, over the keys that are left in ascending order
RECURSIVE fill_nearest_neighbour(_, _, _)
fill_nearest_neighbour(clean, keys, last_first_wave) ==
    IF keys = {} THEN clean
    ELSE LET e == MinOf(keys)
             filled == IF Len(clean[e]) = 0
                       THEN [clean EXCEPT ![e] = last_first_wave]
                       ELSE clean
         IN  fill_nearest_neighbour(filled, keys \ {e}, filled[e])

\* TPCHJobSequenceGen._pre_process_task_duration
pre_process_task_duration(td) ==
    LET clean == clean_first_wave(td)
    IN  [td EXCEPT !.first_wave = fill_nearest_neighbour(clean, DOMAIN clean, <<>>)]

\* The entries of the lists of a file of task durations: a duration of the
\* first wave or a fresh duration of an executor key
WaveEntries == ExecutorKeys \X {"first_wave", "fresh_durations"} \X WaveDurations

\* The lists of the task duration data that holds the entries in this order
RECURSIVE WaveList(_, _, _)
WaveList(entries, e, kind) ==
    IF entries = <<>> THEN <<>>
    ELSE LET x == Head(entries)
         IN  IF x[1] = e /\ x[2] = kind
             THEN <<x[3]>> \o WaveList(Tail(entries), e, kind)
             ELSE WaveList(Tail(entries), e, kind)

LoadedTaskDuration(entries) ==
    [first_wave |-> [e \in ExecutorKeys |-> WaveList(entries, e, "first_wave")],
     fresh_durations |-> [e \in ExecutorKeys |-> WaveList(entries, e, "fresh_durations")]]

\* generate_job has loaded the task durations of an operation: any lists
\* of at most MaxEntries durations altogether
TpchInit ==
    /\ InitWith(TwoJobs)
    /\ \E n \in 0 .. MaxEntries : \E entries \in [1 .. n -> WaveEntries] :
            task_duration = LoadedTaskDuration(entries)
    /\ first_wave_loaded = task_duration.first_wave
    /\ tpch_pc = "loaded"

\* self._pre_process_task_duration(task_duration_data)
PreProcessTaskDuration ==
    /\ tpch_pc = "loaded"
    /\ task_duration' = pre_process_task_duration(task_duration)
    /\ tpch_pc' = "processed"
    /\ UNCHANGED <<env_vars, first_wave_loaded>>

TpchNext == PreProcessTaskDuration

TpchSpec == TpchInit /\ [][TpchNext]_vars

\* ------------------------------------------------------------ properties
Predecessors(op) == {<<op[1], e[1]>> : e \in {d \in dag[op[1]] : d[2] = op[2]}}

AllPredecessorsComplete(op) == \A p \in Predecessors(op) : OpIsComplete(Env, p)

ProcessingTasks == UNION {processing_tasks[op] : op \in Ops}

WorkerIdle(w) == worker_task[w] = NoTask /\ ~worker_is_moving[w]

AllJobsCompleted == SeqRange(completed_job_ids) = JobIds

\* C1. Dependency order: an operation of which a task has been assigned to a
\* worker (is processing or completed) has only completed predecessors.
C1_DependencyOrder ==
    \A op \in Ops :
        processing_tasks[op] \cup completed_tasks[op] # {} => AllPredecessorsComplete(op)

\* A task of an operation that has a predecessor is processing.
C1_Witness ==
    \E op \in Ops : Predecessors(op) # {} /\ processing_tasks[op] # {}

\* C2. Task conservation: the remaining, processing and completed tasks of
\* every operation are pairwise disjoint and together number num_tasks.
C2_TaskConservation ==
    \A op \in Ops :
        /\ remaining_tasks[op] \cap processing_tasks[op] = {}
        /\ remaining_tasks[op] \cap completed_tasks[op] = {}
        /\ processing_tasks[op] \cap completed_tasks[op] = {}
        /\ Cardinality(completed_tasks[op]) + Cardinality(processing_tasks[op])
             + Cardinality(remaining_tasks[op]) = NumTasks(op)

\* An operation has a processing and a completed task at once, and an
\* operation has a remaining task.
C2_Witness ==
    /\ \E op \in Ops : processing_tasks[op] # {} /\ completed_tasks[op] # {}
    /\ \E op \in Ops : remaining_tasks[op] # {}

\* C3. Worker exclusivity: no two processing tasks have the same worker id.
C3_WorkerExclusivity ==
    \A t1, t2 \in ProcessingTasks : task_worker_id[t1] = task_worker_id[t2] => t1 = t2

\* Two tasks are processing, and a worker that ran a task before is bound to
\* another one.
C3_Witness ==
    /\ Cardinality(ProcessingTasks) >= 2
    /\ \E t1 \in ProcessingTasks :
         \E op \in Ops : \E t2 \in completed_tasks[op] : task_worker_id[t1] = task_worker_id[t2]

\* C4 as stated. An operation is in the frontier iff its job has arrived, its
\* predecessors are completed and it is not completed.
C4_FrontierNotCompleted ==
    \A op \in Ops :
        op \in frontier_ops <=>
            (op[1] \in jobs /\ AllPredecessorsComplete(op) /\ ~OpIsComplete(Env, op))

\* C4 as amended. An operation is in the frontier iff its job has arrived, its
\* predecessors are completed and it is not saturated: it has a remaining task.
C4_FrontierNotSaturated ==
    \A op \in Ops :
        op \in frontier_ops <=>
            (op[1] \in jobs /\ AllPredecessorsComplete(op) /\ ~OpSaturated(Env, op))

\* An operation with a predecessor is in the frontier while another operation
\* whose predecessors are completed is saturated and not completed.
C4_Witness ==
    /\ \E op \in frontier_ops : Predecessors(op) # {}
    /\ \E op \in Ops :
         /\ op[1] \in jobs /\ AllPredecessorsComplete(op)
         /\ OpSaturated(Env, op) /\ ~OpIsComplete(Env, op)

\* C5. Operation state exclusivity, an operation being reached when its job
\* has arrived and its predecessors are completed: frontier_ops and
\* saturated_ops are disjoint, hold no completed operation and no operation
\* that is not reached, and every reached operation that is not completed is
\* in one of them.
C5_OpStateExclusive ==
    /\ frontier_ops \cap saturated_ops = {}
    /\ \A op \in Ops :
         LET reached == op[1] \in jobs /\ AllPredecessorsComplete(op)
         IN  /\ OpIsComplete(Env, op) => op \notin frontier_ops \cup saturated_ops
             /\ ~reached => op \notin frontier_ops \cup saturated_ops
             /\ (reached /\ ~OpIsComplete(Env, op)) => op \in frontier_ops \cup saturated_ops

\* An operation is in the frontier, another is saturated and a third is
\* completed.
C5_Witness ==
    /\ frontier_ops # {}
    /\ saturated_ops # {}
    /\ \E op \in Ops : OpIsComplete(Env, op)

\* C6. Worker availability: between step calls a worker id is in
\* avail_worker_ids iff the worker has no task and is not moving.
C6_WorkerAvailability ==
    BetweenSteps => \A w \in WorkerIds : w \in avail_worker_ids <=> WorkerIdle(w)

C8_DoneSemantics ==
    pc = "returned" => (done <=> (timeline = <<>> /\ \A w \in WorkerIds : WorkerIdle(w)))

\* The jobs that were in the system at some time of the last step's interval
JobsInSystem == {j \in jobs : t_completed[j] >= prev_time}

RECURSIVE SojournSum(_)
SojournSum(js) ==
    IF js = {} THEN 0
    ELSE LET j == MinOf(js)
         IN  (Min(t_completed[j], wall_time) - Max(TArrival(j), prev_time))
               + SojournSum(js \ {j})

\* C9. Per-step reward: the reward a step returned is -REWARD_SCALE times the
\* time the jobs in the system spent in it during the step's interval, a job
\* completed during the step counting up to its completion.
C9_PerStepReward ==
    pc = "returned" => reward = 0 - SojournSum(JobsInSystem)

RECURSIVE TotalSojourn(_)
TotalSojourn(js) ==
    IF js = {} THEN 0
    ELSE LET j == MinOf(js)
         IN  (t_completed[j] - TArrival(j)) + TotalSojourn(js \ {j})

\* C10. Cumulative reward: once every job has completed, the rewards returned
\* sum to -REWARD_SCALE times the total sojourn time, which is negative.
C10_CumulativeReward ==
    (pc = "returned" /\ AllJobsCompleted) =>
        (cum_reward < 0 /\ cum_reward = 0 - TotalSojourn(JobIds))

\* The engine's and the entities' state
engine_vars ==
    <<job_ops, dag, wall_time, timeline, jobs, active_job_ids, completed_job_ids,
      frontier_ops, saturated_ops, avail_worker_ids, worker_task, worker_job_id,
      worker_is_moving, local_workers, active_ops, job_frontier_ops, t_completed,
      saturated_op_count,
      remaining_tasks, processing_tasks, completed_tasks, task_worker_id,
      task_t_accepted, task_t_completed>>

\* The transition sends a worker toward op or binds a worker to a task of op
CommitsWorkerTo(op) ==
    \/ \E i \in 1 .. Len(timeline') :
         /\ timeline'[i].kind = "WorkerArrival"
         /\ timeline'[i].op = op
         /\ timeline'[i] \notin SeqRange(timeline)
    \/ processing_tasks'[op] # processing_tasks[op]

\* C11. Invalid action: a step call that raises leaves the engine's state as
\* it was, and no step call sends a worker toward, or binds a worker to, an
\* operation that is not in the frontier when step is called; neither does
\* it pop an event or change the wall time before the action is applied.
C11_InvalidAction ==
    [][BetweenSteps =>
         /\ pc' = "raised" => UNCHANGED engine_vars
         /\ \A op \in Ops : op \notin frontier_ops => ~CommitsWorkerTo(op)
         /\ wall_time' = wall_time
         /\ \A i \in 1 .. Len(timeline) : timeline[i] \in SeqRange(timeline')]_vars

\* A step call has raised while a worker was available and an operation
\* that is saturated and one that is completed were there to be named.
C11_Witness ==
    /\ pc = "raised"
    /\ \E w \in avail_worker_ids : WorkerIdle(w)
    /\ saturated_ops # {}
    /\ \E op \in Ops : OpIsComplete(Env, op)

\* The workers the transition puts in the moving state, and those it binds
NewlyMoving == {w \in WorkerIds : worker_is_moving'[w] /\ ~worker_is_moving[w]}

NewlyBound == {w \in WorkerIds : worker_task'[w] # NoTask /\ worker_task[w] = NoTask}

IdleWorkers == {w \in WorkerIds : WorkerIdle(w)}

\* C12. Worker count of an action: a step that applies the action (op, n)
\* commits, by sending or by binding, exactly min(n, number of available
\* workers) workers.
C12_WorkerCount ==
    [][\A op \in Ops, n \in 0 .. (NumWorkers + 1) :
         StepAction(op[1], op[2], n) =>
             Cardinality(NewlyMoving \cup NewlyBound) = Min(n, Cardinality(IdleWorkers))]_vars

\* C13. No transit for local workers: a step that applies an action to op
\* leaves every available worker that is local to op's job out of the moving
\* state, binds it at the current wall time unless op has no task left, and
\* puts only workers that are not local to the job in the moving state.
C13_NoTransitForLocal ==
    [][\A op \in Ops, n \in 0 .. (NumWorkers + 1) :
         StepAction(op[1], op[2], n) =>
             /\ NewlyMoving \cap local_workers[op[1]] = {}
             /\ \A w \in local_workers[op[1]] \cap IdleWorkers :
                  /\ ~worker_is_moving'[w]
                  /\ worker_task'[w] # NoTask \/ remaining_tasks'[op] = {}
                  /\ worker_task'[w] # NoTask =>
                       task_t_accepted'[worker_task'[w]] = wall_time]_vars

\* The events the transition pushes
PushedEvents == {ev \in SeqRange(timeline') : ev \notin SeqRange(timeline)}

\* C14. Monotonic time: the wall time, which is the time of the event popped
\* last, never decreases, and every event pushed has a time that is not
\* earlier than the wall time at which it is pushed.
C14_MonotonicTime ==
    [][/\ wall_time' >= wall_time
       /\ \A ev \in PushedEvents : ev.time >= wall_time']_vars

\* Time has advanced, and a worker arrival and a task completion that were
\* pushed after the start are pending together.
C14_Witness ==
    /\ wall_time > 0
    /\ \E ev \in SeqRange(timeline) : ev.kind = "WorkerArrival" /\ ev.time > MOVING_COST
    /\ \E ev \in SeqRange(timeline) : ev.kind = "TaskCompletion"

\* What a run shows of the engine's state whoever the workers are: the
\* pending events in their order, without the ids of workers and tasks, and
\* the frontier and saturated operations
Observed(s) ==
    [events |-> [i \in 1 .. Len(s.timeline) |->
                    <<s.timeline[i].time, s.timeline[i].kind, s.timeline[i].op>>],
     frontier_ops |-> s.frontier_ops,
     saturated_ops |-> s.saturated_ops]

\* What the action (op, n) may leave, over the orders in which
\* avail_worker_ids and job.local_workers are iterated
ActionOutcomes(op, n) ==
    UNION {LET s1 == send_more_workers(Env, op, n, sendOrder)
           IN  {Observed(schedule_workers(s1, op, localOrder).s) :
                    localOrder \in Perms(s1.local_workers[op[1]])} :
               sendOrder \in Perms(avail_worker_ids)}

\* C15. Determinism: between step calls, the events, frontier and saturated
\* operations that an action leaves are the same whatever the order in which
\* the available workers and the job's local workers are iterated.
C15_Determinism ==
    BetweenSteps =>
        \A op \in Ops, n \in 0 .. (NumWorkers + 1) :
            ValidAction(Env, op[1], op[2]) => Cardinality(ActionOutcomes(op, n)) = 1

\* The event at the head of the timeline needs the agent once processed: it
\* is a job arrival, a worker arrival at an operation that is complete or
\* saturated, which leaves the worker idle, or a task completion after which
\* its operation is complete
NeedsAgentAfter(ev) ==
    \/ ev.kind = "JobArrival"
    \/ /\ ev.kind = "WorkerArrival"
       /\ OpIsComplete(Env, ev.op) \/ OpSaturated(Env, ev.op)
       /\ worker_task'[ev.worker] = NoTask
    \/ /\ ev.kind = "TaskCompletion"
       /\ Cardinality(completed_tasks'[ev.op]) = NumTasks(ev.op)

\* C16. Decision points: inside step, either step returns, and then the
\* event processed last needs the agent or the timeline is empty, or the
\* earliest event is popped and processed, which happens only while no
\* processed event has needed the agent, and the event needs the agent
\* exactly when it is a job arrival, a worker arrival that leaves the worker
\* idle or a task completion that completes its operation.
C16_DecisionPoints ==
    [][pc = "draining" =>
         IF pc' = "returned"
         THEN (needs_agent \/ timeline = <<>>) /\ UNCHANGED engine_vars
         ELSE /\ ~needs_agent
              /\ timeline # <<>>
              /\ \A ev \in SeqRange(timeline) : Head(timeline).time <= ev.time
              /\ wall_time' = Head(timeline).time
              /\ Head(timeline) \notin SeqRange(timeline')
              /\ needs_agent' <=> NeedsAgentAfter(Head(timeline))]_vars

\* Step is about to return with events still pending, because a worker
\* arrival has left its worker idle.
C16_Witness ==
    /\ pc = "draining"
    /\ needs_agent
    /\ timeline # <<>>
    /\ \E w \in avail_worker_ids : WorkerIdle(w) /\ worker_job_id[w] # None
    /\ \E op \in saturated_ops : local_workers[op[1]] \cap IdleWorkers # {}

\* The number of times j occurs in the list q
Occurrences(q, j) == Cardinality({i \in 1 .. Len(q) : q[i] = j})

JobOpsComplete(j) == \A o \in job_ops[j] : OpIsComplete(Env, <<j, o>>)

\* C17. Job completion exactly once.  In every state a job id occurs at most
\* once in the completed list and never in both lists, and it is in the
\* completed list, with a completion time, exactly when all the job's
\* operations are complete.  A job id enters the completed list only at a
\* task completion event of that job that completes an operation, it leaves
\* the active list in the same transition, and its completion time is set to
\* the wall time of that event and never changes afterwards.
C17_JobCompletionOnce ==
    /\ [](\A j \in JobIds :
            /\ Occurrences(completed_job_ids, j) <= 1
            /\ Occurrences(active_job_ids, j) <= 1
            /\ Occurrences(completed_job_ids, j) + Occurrences(active_job_ids, j)
                 = IF j \in jobs THEN 1 ELSE 0
            /\ Occurrences(completed_job_ids, j) = 1 <=> (j \in jobs /\ JobOpsComplete(j))
            /\ Occurrences(completed_job_ids, j) = 1 <=> t_completed[j] # Inf)
    /\ [][\A j \in JobIds :
            /\ Occurrences(completed_job_ids', j) >= Occurrences(completed_job_ids, j)
            /\ Occurrences(completed_job_ids, j) = 1 => t_completed'[j] = t_completed[j]
            /\ Occurrences(completed_job_ids', j) > Occurrences(completed_job_ids, j) =>
                 /\ pc = "draining"
                 /\ timeline # <<>>
                 /\ Head(timeline).kind = "TaskCompletion"
                 /\ Head(timeline).job = j
                 /\ ~OpIsComplete(Env, Head(timeline).op)
                 /\ Occurrences(active_job_ids, j) = 1
                 /\ Occurrences(active_job_ids', j) = 0
                 /\ t_completed'[j] = wall_time']_vars

\* A job is in the completed list while another job is still active.
C17_Witness ==
    /\ Len(completed_job_ids) = 1
    /\ Len(active_job_ids) = 1
    /\ wall_time > t_completed[completed_job_ids[1]]

\* C18. Single frontier entry: no operation has been added to the frontier
\* more than once, and an operation that has left the frontier, having been
\* added to it, is never in it again.
C18_SingleFrontierEntry ==
    /\ [](\A op \in Ops : frontier_entries[op] <= 1)
    /\ [][\A op \in Ops :
            (frontier_entries[op] >= 1 /\ op \notin frontier_ops) =>
                op \notin frontier_ops']_vars

\* An operation that has two predecessors has entered the frontier and left
\* it, and so has one of its predecessors.
C18_Witness ==
    \E op \in Ops :
        /\ Cardinality(Predecessors(op)) = 2
        /\ frontier_entries[op] = 1
        /\ op \notin frontier_ops
        /\ \E p \in Predecessors(op) : frontier_entries[p] = 1 /\ p \notin frontier_ops

\* C19. reset: in the state reset leaves, the wall time is 0, the job
\* table, the job lists, the frontier and the saturated operations are
\* empty, and every worker is in avail_worker_ids, has no task and is not
\* moving.
C19_Reset ==
    pc = "reset" =>
        /\ wall_time = 0
        /\ jobs = {}
        /\ active_job_ids = <<>>
        /\ completed_job_ids = <<>>
        /\ frontier_ops = {}
        /\ saturated_ops = {}
        /\ \A w \in WorkerIds : w \in avail_worker_ids /\ WorkerIdle(w)

\* C20. Availability query: between step calls are_actions_available is true
\* iff the frontier is not empty and some worker that has no task and is not
\* moving is compatible with an operation of the frontier.
C20_AvailabilityQuery ==
    BetweenSteps =>
        (are_actions_available(Env) <=>
            /\ frontier_ops # {}
            /\ \E w \in IdleWorkers : \E op \in frontier_ops : WorkerCompatibleWith(w, op))

\* C21. No pop from an empty timeline: whenever step is in its loop and the
\* loop's test lets it pop an event, the timeline holds an event.
C21_NoPopFromEmpty ==
    (pc = "draining" /\ loop_continues(Env, needs_agent)) => timeline # <<>>

\* Step has been called after done was returned: it is at the loop's test
\* with an empty timeline.
C21_Witness ==
    /\ pc = "draining"
    /\ done
    /\ ~needs_agent
    /\ timeline = <<>>

\* The invariants of job j in the state s: the job's frontier holds active
\* operations only, and the job is completed iff it has no active operation,
\* which is so iff all its operations are completed
JobInv(s, j) ==
    /\ s.job_frontier_ops[j] \subseteq s.active_ops[j]
    /\ JobCompleted(s, j) <=> s.active_ops[j] = {}
    /\ s.active_ops[j] = {} <=> \A o \in s.job_ops[j] : OpIsComplete(s, <<j, o>>)

\* A task completion is the next event to be processed
TaskCompletionNext ==
    /\ pc = "draining"
    /\ loop_continues(Env, needs_agent)
    /\ Head(timeline).kind = "TaskCompletion"

\* C22 as stated. The invariants of every job hold after every Job
\* operation, add_task_completion included: they hold in every state, and
\* where a task completion is to be processed they hold of the state that
\* add_task_completion leaves.
C22_AfterEveryJobOperation ==
    /\ \A j \in JobIds : JobInv(Env, j)
    /\ TaskCompletionNext =>
          JobInv(add_task_completion(Popped, Head(timeline).op, Head(timeline).task),
                 Head(timeline).job)

\* C22 as amended. The invariants of every job hold once an action or an
\* event has been processed whole, that is after initialize_frontier, after
\* assign_worker, and after the add_op_completion that follows an
\* add_task_completion which has completed an operation.
C22_JobInvariants == \A j \in JobIds : JobInv(Env, j)

\* A job's frontier holds a saturated operation next to one that still has
\* a remaining task, after an operation of the job has completed.
C22_Witness ==
    \E j \in jobs :
        /\ \E op \in job_frontier_ops[j] : OpSaturated(Env, op)
        /\ \E op \in job_frontier_ops[j] : ~OpSaturated(Env, op)
        /\ active_ops[j] # {<<j, o>> : o \in job_ops[j]}

\* C23: the assertions of the entities and the removals of the engine never
\* fail.  No reachable state has seen the assertion of Job.assign_worker
\* (the operation has an unassigned task), the assertion of
\* Job.add_task_completion (the operation is not completed), the removal of
\* a completed operation from saturated_ops, from the job's active
\* operations or from its frontier, or the removal of a completed job from
\* active_job_ids raise; and the event about to be processed meets the
\* condition of the assertion it reaches.
C23_AssertionsUnreachable ==
    /\ ~failed
    /\ TaskCompletionNext =>
          LET op == Head(timeline).op
              after == add_task_completion(Popped, op, Head(timeline).task)
          IN  /\ ~OpIsComplete(Env, op)
              /\ OpIsComplete(after, op) =>
                    op \in saturated_ops /\ op \in active_ops[op[1]]
    /\ PopEvent("WorkerArrival") =>
          LET op == Head(timeline).op
          IN  \/ OpIsComplete(Env, op)
              \/ OpSaturated(Env, op)
              \/ Cardinality(processing_tasks[op]) + Cardinality(completed_tasks[op])
                     < NumTasks(op)

\* A worker is about to arrive at an operation that became saturated while
\* the worker was moving, and an operation has completed and has left the
\* saturated operations
C23_Witness ==
    /\ ~failed
    /\ PopEvent("WorkerArrival")
    /\ OpSaturated(Env, Head(timeline).op)
    /\ \E op \in Ops : OpIsComplete(Env, op) /\ op \notin saturated_ops

\* The state of job j: the fields of the Job object and of its operations
\* and tasks
JobState(s, j) ==
    [local_workers |-> s.local_workers[j],
     active_ops |-> s.active_ops[j],
     frontier_ops |-> s.job_frontier_ops[j],
     t_completed |-> s.t_completed[j],
     saturated_op_count |-> s.saturated_op_count[j],
     remaining |-> [o \in s.job_ops[j] |-> s.remaining_tasks[<<j, o>>]],
     processing |-> [o \in s.job_ops[j] |-> s.processing_tasks[<<j, o>>]],
     completed |-> [o \in s.job_ops[j] |-> s.completed_tasks[<<j, o>>]]]

\* The engine's state after the transition
EnvNext ==
    [Env EXCEPT !.local_workers = local_workers', !.active_ops = active_ops',
                !.job_frontier_ops = job_frontier_ops', !.t_completed = t_completed',
                !.saturated_op_count = saturated_op_count',
                !.remaining_tasks = remaining_tasks',
                !.processing_tasks = processing_tasks',
                !.completed_tasks = completed_tasks']

\* C24: completed jobs are frozen.  No step of the engine changes the state
\* of a job that is among the completed jobs: its local workers, its
\* operations' task sets and its completion time stay as they are.
C24_CompletedJobsFrozen ==
    [][\A j \in SeqRange(completed_job_ids) : JobState(EnvNext, j) = JobState(Env, j)]_vars

C26_WorkerArrival ==
    [][PopEvent("WorkerArrival") =>
         LET w == Head(timeline).worker
             op == Head(timeline).op
             task == worker_task'[w]
         IN  /\ w \in local_workers'[op[1]]
             /\ ~worker_is_moving'[w]
             /\ wall_time' = Head(timeline).time
             /\ IF OpIsComplete(Env, op) \/ OpSaturated(Env, op)
                THEN /\ w \in avail_worker_ids'
                     /\ task = NoTask
                     /\ remaining_tasks' = remaining_tasks
                     /\ PushedEvents = {}
                ELSE /\ task \in remaining_tasks[op]
                     /\ remaining_tasks'[op] = remaining_tasks[op] \ {task}
                     /\ processing_tasks'[op] = processing_tasks[op] \cup {task}
                     /\ task_worker_id'[task] = w
                     /\ task_t_accepted'[task] = wall_time'
                     /\ PushedEvents =
                          {TaskCompletion(wall_time' + TaskDuration(op, WorkerType(w)),
                                          op, task)}
                     /\ w \notin avail_worker_ids']_vars

\* Both cases have happened: a worker that arrived at an operation is bound
\* to a task of it, and another worker that arrived at a saturated or
\* completed operation is idle, local to the job and available
C26_Witness ==
    /\ pc = "draining"
    /\ \E w \in WorkerIds :
         /\ worker_task[w] # NoTask
         /\ task_t_accepted[worker_task[w]] = wall_time
         /\ wall_time > 0
         /\ w \in local_workers[worker_task[w][1]]
    /\ \E w \in WorkerIds, j \in JobIds :
         /\ WorkerAvailable(Env, w)
         /\ w \in local_workers[j]
         /\ w \in avail_worker_ids
         /\ \E op \in Ops : op[1] = j /\ OpSaturated(Env, op) /\ ~OpIsComplete(Env, op)

\* C27: task-completion rebinding.  When a TaskCompletion is processed and,
\* with that task completed, the operation is not complete and has remaining
\* tasks, the worker that ran the task is bound in the same event, at the
\* wall time of the event, to another task that was remaining of the same
\* operation, its TaskCompletion event is pushed, and the event does not make
\* step return: needs_agent is FALSE and the loop goes on.
C27_Rebinding ==
    [][TaskCompletionNext =>
         LET op == Head(timeline).op
             task == Head(timeline).task
             w == task_worker_id[task]
             after == add_task_completion(Popped, op, task)
             next == worker_task'[w]
         IN  (~OpIsComplete(after, op) /\ ~OpSaturated(after, op)) =>
               /\ next \in remaining_tasks[op]
               /\ next # task
               /\ task_worker_id'[next] = w
               /\ wall_time' = Head(timeline).time
               /\ task_t_accepted'[next] = wall_time'
               /\ remaining_tasks'[op] = remaining_tasks[op] \ {next}
               /\ TaskCompletion(wall_time' + TaskDuration(op, WorkerType(w)), op, next)
                     \in PushedEvents
               /\ needs_agent' = FALSE
               /\ pc' = "draining"
               /\ loop_continues(EnvNext, needs_agent')]_vars

\* A worker has completed a task of an operation and runs another task of
\* the same operation, accepted when the first one completed
C27_Witness ==
    /\ pc = "draining"
    /\ ~needs_agent
    /\ \E w \in WorkerIds, op \in Ops :
         /\ worker_task[w] \in processing_tasks[op]
         /\ task_t_accepted[worker_task[w]] = wall_time
         /\ \E done_task \in completed_tasks[op] :
              /\ task_worker_id[done_task] = w
              /\ task_t_completed[done_task] = wall_time

\* The jobs that have worker w in their local workers
LocalJobs(s, w) == {j \in DOMAIN s.local_workers : w \in s.local_workers[j]}

\* C28: worker locality.  In every reachable state each worker is in the
\* local workers of at most one job, and a moving worker is in none: a worker
\* that starts moving has left the local workers of its previous job in the
\* same step, and a worker enters the local workers of a job only when its
\* WorkerArrival event for an operation of that job is processed.
C28_WorkerLocality ==
    /\ [](\A w \in WorkerIds :
            /\ Cardinality(LocalJobs(Env, w)) <= 1
            /\ worker_is_moving[w] => LocalJobs(Env, w) = {})
    /\ [][\A w \in WorkerIds :
            /\ w \in NewlyMoving => LocalJobs(EnvNext, w) = {}
            /\ \A j \in JobIds :
                 (w \in local_workers'[j] /\ w \notin local_workers[j]) =>
                   /\ PopEvent("WorkerArrival")
                   /\ Head(timeline).worker = w
                   /\ Head(timeline).op[1] = j]_vars

\* A worker that was local to one job has been sent to another job and is
\* moving, while the other worker is local to a job
C28_Witness ==
    \E w \in WorkerIds, v \in WorkerIds, j \in JobIds :
        /\ worker_is_moving[w]
        /\ \E task \in DOMAIN task_worker_id :
             /\ task_worker_id[task] = w
             /\ task_t_completed[task] # None
             /\ \E ev \in SeqRange(timeline) :
                  ev.kind = "WorkerArrival" /\ ev.worker = w /\ ev.job # task[1]
        /\ v # w
        /\ v \in local_workers[j]

\* The positions of the pending WorkerArrival events of worker w
PendingArrivals(w) ==
    {i \in 1 .. Len(timeline) :
        timeline[i].kind = "WorkerArrival" /\ timeline[i].worker = w}

\* C29: moving workers and arrival events correspond.  In every reachable
\* state a worker is moving if and only if exactly one WorkerArrival event
\* for it is pending, and a worker that is not moving has none; every
\* WorkerArrival event is pushed for a worker that was not moving, at the
\* wall time of the send plus MOVING_COST.
C29_MovingWorkers ==
    /\ [](\A w \in WorkerIds :
            /\ worker_is_moving[w] <=> Cardinality(PendingArrivals(w)) = 1
            /\ Cardinality(PendingArrivals(w)) <= 1
            /\ \A i \in PendingArrivals(w) :
                 /\ timeline[i].time >= wall_time
                 /\ timeline[i].time <= wall_time + MOVING_COST)
    /\ [][\A ev \in PushedEvents :
            ev.kind = "WorkerArrival" =>
              /\ ~worker_is_moving[ev.worker]
              /\ worker_is_moving'[ev.worker]
              /\ ev.time = wall_time + MOVING_COST
              /\ wall_time' = wall_time]_vars

\* A worker is moving with its arrival pending after time has passed since
\* it was sent, and the other worker is not moving
C29_Witness ==
    \E w \in WorkerIds, v \in WorkerIds :
        /\ worker_is_moving[w]
        /\ \E i \in PendingArrivals(w) :
             timeline[i].time > wall_time /\ timeline[i].time < wall_time + MOVING_COST
        /\ ~worker_is_moving[v]
        /\ PendingArrivals(v) = {}

\* The positions of the pending TaskCompletion events of a task
PendingCompletions(task) ==
    {i \in 1 .. Len(timeline) :
        timeline[i].kind = "TaskCompletion" /\ timeline[i].task = task}

\* C30: processing tasks and completion events correspond.  In every
\* reachable state between two step calls, every task that is assigned and
\* not completed has exactly one pending TaskCompletion event, at the task's
\* acceptance time plus the duration of the operation's tasks on the type of
\* the task's worker, and every pending TaskCompletion event is the event of
\* such a task.
C30_TaskEvents ==
    BetweenSteps =>
      /\ \A op \in Ops : \A task \in processing_tasks[op] :
            /\ Cardinality(PendingCompletions(task)) = 1
            /\ \A i \in PendingCompletions(task) :
                 /\ timeline[i].op = op
                 /\ timeline[i].time =
                      task_t_accepted[task]
                        + TaskDuration(op, WorkerType(task_worker_id[task]))
      /\ \A i \in 1 .. Len(timeline) :
            timeline[i].kind = "TaskCompletion" =>
              /\ timeline[i].task \in processing_tasks[timeline[i].op]
              /\ task_t_completed[timeline[i].task] = None
              /\ task_worker_id[timeline[i].task] # None

\* A step has returned while a task is running, accepted before the step
\* returned, with its event pending, and another task has been completed
C30_Witness ==
    /\ pc = "returned"
    /\ \E task \in ProcessingTasks :
         /\ task_t_accepted[task] < wall_time
         /\ PendingCompletions(task) # {}
    /\ \E task \in DOMAIN task_t_completed : task_t_completed[task] # None

\* The workers that _send_more_workers may send to op: they are in
\* avail_worker_ids and can be assigned to op
SendableWorkers(op) == {w \in avail_worker_ids : WorkerCanAssign(Env, w, op)}

\* C31: number of workers sent.  A step with the action (op, prlvl), where
\* prlvl is at least the number of workers local to op's job, sends exactly
\* min(prlvl - number of workers local to op's job, number of available
\* workers) workers to op's job.
C31_WorkersSent ==
    [][\A op \in Ops, n \in 0 .. (NumWorkers + 1) :
         (StepAction(op[1], op[2], n) /\ n >= Cardinality(local_workers[op[1]])) =>
             Cardinality(NewlyMoving) =
                 Min(n - Cardinality(local_workers[op[1]]),
                     Cardinality(SendableWorkers(op)))]_vars

\* The DAG successors of op that are not completed and whose DAG
\* predecessors are all completed, in state s
ReadySuccessors(s, op) ==
    {suc \in {<<op[1], o>> : o \in s.job_ops[op[1]]} :
        /\ <<op[2], suc[2]>> \in s.dag[op[1]]
        /\ ~OpIsComplete(s, suc)
        /\ \A o \in s.job_ops[op[1]] :
              <<o, suc[2]>> \in s.dag[op[1]] => OpIsComplete(s, <<op[1], o>>)}

\* What the claim says of find_new_frontier_ops and add_op_completion for
\* operation op in state s
NewFrontierOpsAsClaimed(s, op) ==
    LET expected == IF OpIsComplete(s, op) THEN ReadySuccessors(s, op) ELSE {}
        after == add_op_completion(s, op)
    IN  /\ find_new_frontier_ops(s, op) = expected
        /\ (op \in s.active_ops[op[1]] /\ op \in s.job_frontier_ops[op[1]]) =>
              /\ ~after.failed
              /\ after.active_ops[op[1]] = s.active_ops[op[1]] \ {op}
              /\ after.job_frontier_ops[op[1]] =
                    (s.job_frontier_ops[op[1]] \ {op}) \cup expected
              /\ after = [s EXCEPT !.active_ops = after.active_ops,
                                   !.job_frontier_ops = after.job_frontier_ops]
              /\ add_op_completion_returns(s, op) = (expected # {})

\* C32: new frontier operations.  In every reachable state, and in the state
\* in which the engine calls add_op_completion (the task of the pending
\* TaskCompletion has been marked completed), for every operation op:
\* find_new_frontier_ops(op, 'completed') is empty when op is not completed
\* and otherwise is exactly the set of successors of op that are not
\* completed and have every predecessor completed; add_op_completion(op)
\* removes op from active_ops and frontier_ops, adds exactly that set to
\* frontier_ops, changes nothing else, and returns true iff the set is not
\* empty.
C32_NewFrontierOps ==
    /\ \A op \in Ops : NewFrontierOpsAsClaimed(Env, op)
    /\ TaskCompletionNext =>
          \A op \in Ops :
              NewFrontierOpsAsClaimed(
                  add_task_completion(Popped, Head(timeline).op, Head(timeline).task), op)

\* The last task of an operation is about to complete; the operation has
\* two successors, one that becomes ready and one that waits for another
\* predecessor, or it is one of two predecessors of an operation and the
\* other one is completed
C32_Witness ==
    /\ TaskCompletionNext
    /\ LET op == Head(timeline).op
           s1 == add_task_completion(Popped, op, Head(timeline).task)
       IN  /\ OpIsComplete(s1, op)
           /\ ReadySuccessors(s1, op) # {}
           /\ \E p \in Ops : p # op /\ OpIsComplete(s1, p)
                              /\ ReadySuccessors(s1, op) \cap ReadySuccessors(s1, p) # {}

C34_SaturatedMask ==
    \A stage \in Ops :
        /\ OpIsComplete(Env, stage) => stage \notin saturated_ops
        /\ ~(stage \in frontier_ops /\ stage \in saturated_ops)

\* C35: SysState.take_action bound.  A take_action with a valid action on a
\* frontier stage binds at most n_workers workers and at most as many as
\* the stage had remaining tasks, each of them a worker that was available,
\* to distinct remaining tasks of the stage; it changes no other stage, and
\* afterwards the stage is out of the frontier mask and in the saturated
\* mask if it is saturated, and in the frontier mask and out of the
\* saturated mask if it is not.
C35_TakeActionBound ==
    [][\A op \in Ops, n \in 0 .. (NumWorkers + 1) :
         SysTakeAction(op[1], op[2], n) =>
             /\ Cardinality(NewlyBound) <= n
             /\ Cardinality(NewlyBound) <= Cardinality(remaining_tasks[op])
             /\ \A w \in WorkerIds :
                  worker_task'[w] # worker_task[w] =>
                      /\ WorkerAvailable(Env, w)
                      /\ worker_task'[w] \in remaining_tasks[op]
                      /\ task_worker_id'[worker_task'[w]] = w
             /\ remaining_tasks'[op] =
                  remaining_tasks[op] \ {worker_task'[w] : w \in NewlyBound}
             /\ Cardinality({worker_task'[w] : w \in NewlyBound}) = Cardinality(NewlyBound)
             /\ \A other \in Ops \ {op} : remaining_tasks'[other] = remaining_tasks[other]
             /\ IF remaining_tasks'[op] = {}
                THEN op \notin frontier_ops' /\ op \in saturated_ops'
                ELSE op \in frontier_ops' /\ op \notin saturated_ops'
             /\ frontier_ops' \ {op} = frontier_ops \ {op}
             /\ saturated_ops' \ {op} = saturated_ops \ {op}]_vars

\* An action asked for fewer workers than were available: a frontier stage
\* has a task in progress and a remaining task while a worker is available,
\* and another stage has been saturated
C35_Witness ==
    /\ \E op \in frontier_ops :
         /\ processing_tasks[op] # {}
         /\ remaining_tasks[op] # {}
         /\ \E w \in WorkerIds : WorkerAvailable(Env, w)
    /\ \E op \in saturated_ops : op \notin frontier_ops /\ OpSaturated(Env, op)

\* The available workers of the type, and those of them at job j
AvailableOfType(worker_type) ==
    {w \in WorkerIds : WorkerType(w) = worker_type /\ WorkerAvailable(Env, w)}

AvailableAtJob(j, worker_type) ==
    {w \in AvailableOfType(worker_type) : worker_job_id[w] = j}

\* C36: closest-worker priority.  In every reachable state of SysState and
\* for every stage of a job that has been added, find_closest_worker(stage,
\* worker_type) is None if the stage is saturated or no worker of the type
\* is available; otherwise it is an available worker of the type, and it is
\* a worker at the stage's job whenever an available worker of the type is
\* at the stage's job.
C36_ClosestWorker ==
    \A stage \in Ops :
        stage[1] \in jobs =>
          LET worker == find_closest_worker(Env, stage, 0)
          IN  IF OpSaturated(Env, stage) \/ AvailableOfType(0) = {}
              THEN worker = None
              ELSE /\ worker \in AvailableOfType(0)
                   /\ AvailableAtJob(stage[1], 0) # {} =>
                         worker \in AvailableAtJob(stage[1], 0)

\* C37: done is stable.  Whenever the caller is between two step calls and
\* a step of the episode has returned done = TRUE, a step(None) called now
\* processes no event (its loop is not entered, so that the wall time and
\* the engine's state stay as they are) and returns done = TRUE and the
\* reward 0.
C37_DoneStable ==
    (BetweenSteps /\ done_returned) =>
        /\ ~loop_continues(Env, FALSE)
        /\ step_done(Env)
        /\ calculate_reward(Env, wall_time) = 0

\* The jobs that spent a positive time in the system during the last step's
\* interval [prev_time, wall_time]
ActiveOverInterval ==
    {j \in jobs : Max(TArrival(j), prev_time) < Min(t_completed[j], wall_time)}

\* C38: reward sign.  Every reward a step returned is at most 0, and it is 0
\* when no job was active during the step's time interval.
C38_RewardSign ==
    pc = "returned" =>
        /\ reward <= 0
        /\ (ActiveOverInterval = {} => reward = 0)

\* An earlier step returned a negative reward, and the last step returned 0
\* over an interval in which no job spent time, a job being active
C38_Witness ==
    /\ pc = "returned"
    /\ cum_reward < 0
    /\ reward = 0
    /\ ActiveOverInterval = {}
    /\ active_job_ids # <<>>

\* The occurrences of d among the first i elements of ds
OccurrencesUpTo(ds, d, i) == Cardinality({k \in 1 .. i : ds[k] = d})

\* The list of the elements of ds that are beyond the first k occurrences
\* of their value, k being the occurrences of the value in fresh
Unmatched(ds, fresh) ==
    LET keep[i \in 0 .. Len(ds)] ==
            IF i = 0 THEN <<>>
            ELSE IF OccurrencesUpTo(ds, ds[i], i) > OccurrencesUpTo(fresh, ds[i], Len(fresh))
                 THEN Append(keep[i - 1], ds[i])
                 ELSE keep[i - 1]
    IN  keep[Len(ds)]

SmallerKeys(e) == {k \in ExecutorKeys : k < e}

NearestSmallerKey(e) == CHOOSE k \in SmallerKeys(e) : \A x \in SmallerKeys(e) : x <= k

\* C39: first-wave cleaning.  After _pre_process_task_duration, a key whose
\* first wave has durations beyond those matched by its fresh durations (a
\* duration that occurs k times in the fresh durations matches the first k
\* of its occurrences in the first wave) holds these, in their order; a key
\* that has none and that is not the smallest key holds the list of the
\* nearest smaller key.
C39_FirstWaveCleaning ==
    tpch_pc = "processed" =>
        \A e \in ExecutorKeys :
            LET cleaned == Unmatched(first_wave_loaded[e], task_duration.fresh_durations[e])
            IN  /\ cleaned # <<>> => task_duration.first_wave[e] = cleaned
                /\ (cleaned = <<>> /\ SmallerKeys(e) # {}) =>
                       task_duration.first_wave[e] =
                           task_duration.first_wave[NearestSmallerKey(e)]

\* The first wave of a key held a duration twice and its fresh durations
\* held it once, and the keys above it had nothing left after the cleaning
C39_Witness ==
    /\ tpch_pc = "processed"
    /\ \E e \in ExecutorKeys, d \in WaveDurations :
          /\ first_wave_loaded[e] = <<d, d>>
          /\ task_duration.fresh_durations[e] = <<d>>
          /\ task_duration.first_wave[e] = <<d>>
          /\ \E k \in ExecutorKeys :
                /\ k > e
                /\ first_wave_loaded[k] # <<>>
                /\ task_duration.first_wave[k] = <<d>>

\* The operations of job j that have no remaining task
SaturatedOpsOf(j) == {op \in Ops : op[1] = j /\ remaining_tasks[op] = {}}

\* C40: saturated-operation counter.  For every job, saturated_op_count is
\* the number of the job's operations that have no remaining task, and
\* Job.saturated is true iff every operation of the job has all its tasks
\* assigned.
C40_SaturatedOpCount ==
    \A j \in JobIds :
        /\ saturated_op_count[j] = Cardinality(SaturatedOpsOf(j))
        /\ saturated(Env, j) <=> \A o \in job_ops[j] : remaining_tasks[<<j, o>>] = {}

\* Workers were assigned to the tasks of a job so that one of its operations
\* has no remaining task and another has an assigned and a remaining task
C40_Witness ==
    \E j \in JobIds :
        /\ ~saturated(Env, j)
        /\ saturated_op_count[j] > 0
        /\ \E op \in Ops :
              /\ op[1] = j
              /\ remaining_tasks[op] # {}
              /\ processing_tasks[op] \cup completed_tasks[op] # {}

====
